---------------------------- MODULE Spec2Model ----------------------------
(***************************************************************************)
(* Model of the `allow` command of the Org Policy CLI                      *)
(* (lib/surface/org_policies/allow.py): Allow.Run, Allow.UpdatePolicy,     *)
(* Allow._AddValues, Allow._AllowAllValues and                             *)
(* Allow._GetMissingAllowedValuesFromRules, together with the helpers of   *)
(* api_lib.orgpolicy.utils and command_lib.org_policies.utils they call.   *)
(*                                                                         *)
(* A policy is a sequence of rules.  A rule is a record                    *)
(*   [condition, allowAll, denyAll, values]                                *)
(* where condition is "None" or an expression string, allowAll and denyAll *)
(* are "None", "True" or "False" (optional booleans), and values is        *)
(* [isSet, allowedValues, deniedValues]; isSet = FALSE stands for          *)
(* rule.values being None.                                                 *)
(***************************************************************************)
EXTENDS Integers, Sequences, FiniteSets, TLC

VARIABLES
    start,      \* the policy the caller held before the first call
    fetched,    \* the policy handed to the latest call, as it was before it
    policy,     \* the caller's policy object after the latest call
    args,       \* the arguments of the latest call
    outcome,    \* "none", "ok", "InvalidInputError", "OperationNotSupportedError"
    returned,   \* TRUE iff the latest call returned a policy
    updated,    \* the policy the latest call returned (<<>> when none)
    step        \* "idle", "run", "repeat", "undo"

vars == <<start, fetched, policy, args, outcome, returned, updated, step>>

---------------------------------------------------------------------------
(* Bounds *)

MaxRules == 2       \* rules in the policy the caller starts with
MaxLen == 3         \* values given on the command line

Values == {"A", "B"}
Conditions == {"None", "c1"}

---------------------------------------------------------------------------
(* Data *)

SeqToSet(s) == {s[i] : i \in DOMAIN s}

NoValues == [isSet |-> FALSE, allowedValues |-> <<>>, deniedValues |-> <<>>]

StringValues(allowed, denied) ==
    [isSet |-> TRUE, allowedValues |-> allowed, deniedValues |-> denied]

PolicyRule(condition) ==
    [condition |-> condition, allowAll |-> "None", denyAll |-> "None",
     values |-> NoValues]

\* The shapes of rule a fetched policy is built from, before the condition
\* is chosen: the two flag rules, a rule with both flags False, a rule with
\* nothing set, and rules with a values container (empty, or holding
\* allowed values, denied values or both).
RuleKinds ==
    { [allowAll |-> "True", denyAll |-> "None", values |-> NoValues],
      [allowAll |-> "None", denyAll |-> "True", values |-> NoValues],
      [allowAll |-> "False", denyAll |-> "False", values |-> NoValues],
      [allowAll |-> "None", denyAll |-> "None", values |-> NoValues] }
    \cup
    { [allowAll |-> "None", denyAll |-> "None", values |-> StringValues(a, d)] :
        <<a, d>> \in { << <<>>, <<>> >>,
                       << <<"B">>, <<>> >>,
                       << <<"B", "A">>, <<>> >>,
                       << <<>>, <<"A">> >>,
                       << <<"B">>, <<"A">> >> } }

Rules ==
    { [condition |-> c, allowAll |-> k.allowAll, denyAll |-> k.denyAll,
       values |-> k.values] : c \in Conditions, k \in RuleKinds }

Policies == UNION { [1..n -> Rules] : n \in 0..MaxRules }

ValueLists == UNION { [1..n -> Values] : n \in 0..MaxLen }

NoArgs == [value |-> <<>>, remove |-> FALSE, condition |-> "None"]

---------------------------------------------------------------------------
(* api_lib.orgpolicy.utils *)

\* The rules of the policy whose condition equals the given one, as the
\* sequence of their positions in policy (the code holds references to them).
GetMatchingRulesFromPolicy(p, condition) ==
    LET f[i \in 0..Len(p)] ==
            IF i = 0 THEN <<>>
            ELSE IF p[i].condition = condition THEN Append(f[i - 1], i)
            ELSE f[i - 1]
    IN  f[Len(p)]

GetNonMatchingRulesFromPolicy(p, condition) ==
    SelectSeq(p, LAMBDA r : r.condition # condition)

\* Appends a new rule with the condition; the new rule is the last one.
CreateRuleOnPolicy(p, condition) == Append(p, PolicyRule(condition))

---------------------------------------------------------------------------
(* command_lib.org_policies.utils *)

IsEmptyRule(r) ==
    /\ r.allowAll = "None"
    /\ r.denyAll = "None"
    /\ r.values.allowedValues = <<>>
    /\ r.values.deniedValues = <<>>

Without(list, value) == SelectSeq(list, LAMBDA v : v \notin SeqToSet(value))

RemoveFromRule(r, value, property_name) ==
    IF ~r.values.isSet THEN r
    ELSE IF property_name = "allowedValues"
    THEN [r EXCEPT !.values.allowedValues = Without(@, value)]
    ELSE [r EXCEPT !.values.deniedValues = Without(@, value)]

\* Removes the values from the named list of every rule matching the
\* condition, then deletes the matching rules left with nothing set.
RemoveValuesFromPolicy(p, a, property_name) ==
    LET stripped ==
            [i \in DOMAIN p |->
                IF p[i].condition = a.condition
                THEN RemoveFromRule(p[i], a.value, property_name)
                ELSE p[i]]
    IN  SelectSeq(stripped,
                  LAMBDA r : ~(r.condition = a.condition /\ IsEmptyRule(r)))

RemoveAllowedValuesFromPolicy(p, a) ==
    RemoveValuesFromPolicy(p, a, "allowedValues")

RemoveDeniedValuesFromPolicy(p, a) ==
    RemoveValuesFromPolicy(p, a, "deniedValues")

---------------------------------------------------------------------------
(* Results of a call: the outcome, the caller's policy object after the    *)
(* call, and the returned policy.                                          *)

Return(p, new_policy) ==
    [outcome |-> "ok", policy |-> p, returned |-> TRUE, updated |-> new_policy]

Raise(p, error) ==
    [outcome |-> error, policy |-> p, returned |-> FALSE, updated |-> <<>>]

---------------------------------------------------------------------------
(* Allow *)

\* collections.OrderedDict.fromkeys(s): the keys of s, each once, in the
\* order of their first occurrence.
OrderedDictFromKeys(s) ==
    LET f[i \in 0..Len(s)] ==
            IF i = 0 THEN <<>>
            ELSE IF s[i] \in SeqToSet(f[i - 1]) THEN f[i - 1]
            ELSE Append(f[i - 1], s[i])
    IN  f[Len(s)]

\* Faulty variant: the existing values are not consulted.
GetMissingAllowedValuesFromRules_NoExisting(rules, value) ==
    OrderedDictFromKeys(value)

GetMissingAllowedValuesFromRules(rules, value) ==
    LET existing_values ==
            UNION { SeqToSet(rules[k].values.allowedValues) :
                      k \in { j \in DOMAIN rules : rules[j].values.isSet } }
    IN  OrderedDictFromKeys(
            SelectSeq(value, LAMBDA v : v \notin existing_values))

\* Faulty variant: the denied values are left as they are.
ReconcileDenied_Skipped(p, a) == p

\* _AddValues, first two statements: the removal of the values from the
\* denied lists acts on a deep copy of the caller's policy.
ReconcileDenied(p, a) == RemoveDeniedValuesFromPolicy(p, a)

\* Faulty variant: the scan never raises.
ScanRules_NoDenyCheck(rules) ==
    IF \E k \in DOMAIN rules : rules[k].allowAll = "True"
    THEN "allowAll" ELSE "none"

\* Faulty variant: the scan does not return on allowAll.
ScanRules_NoAllowCheck(rules) ==
    IF \E k \in DOMAIN rules : rules[k].denyAll = "True"
    THEN "denyAll" ELSE "none"

\* _AddValues, the loop over the matching rules: the first rule with
\* allowAll or denyAll true decides, allowAll being tested first on it.
ScanRules(rules) ==
    LET hits == { k \in DOMAIN rules :
                    rules[k].allowAll = "True" \/ rules[k].denyAll = "True" }
    IN  IF hits = {} THEN "none"
        ELSE LET k == CHOOSE h \in hits : \A g \in hits : h <= g
             IN  IF rules[k].allowAll = "True" THEN "allowAll" ELSE "denyAll"

\* _AddValues, last statements: the rule at position i gets a values
\* container when it has none, and the missing values are appended.
AppendAllowed(p, i, missing_values) ==
    [p EXCEPT ![i].values =
        [isSet |-> TRUE,
         allowedValues |-> @.allowedValues \o missing_values,
         deniedValues |-> @.deniedValues]]

AddValues(p, a) ==
    LET new_policy == ReconcileDenied(p, a)
        at == GetMatchingRulesFromPolicy(new_policy, a.condition)
        rules == [k \in DOMAIN at |-> new_policy[at[k]]]
        missing_values == GetMissingAllowedValuesFromRules(rules, a.value)
    IN  IF missing_values = <<>> THEN Return(p, new_policy)
        ELSE IF rules = <<>>
        THEN LET created == CreateRuleOnPolicy(new_policy, a.condition)
             IN  Return(p, AppendAllowed(created, Len(created), missing_values))
        ELSE LET scan == ScanRules(rules)
             IN  IF scan = "allowAll" THEN Return(p, new_policy)
                 ELSE IF scan = "denyAll"
                 THEN Raise(p, "OperationNotSupportedError")
                 ELSE LET cleared ==
                              [new_policy EXCEPT ![at[1]].allowAll = "None",
                                                 ![at[1]].denyAll = "None"]
                      IN  Return(p, AppendAllowed(cleared, at[1], missing_values))

\* Faulty variant: the rules matching the condition are kept.
AllowAllValues_KeepMatching(p, a) ==
    LET created == CreateRuleOnPolicy(p, a.condition)
    IN  Return(p, [created EXCEPT ![Len(created)].allowAll = "True"])

\* Faulty variant: allowAll is not set on the created rule.
AllowAllValues_NoFlag(p, a) ==
    Return(p, CreateRuleOnPolicy(
                  GetNonMatchingRulesFromPolicy(p, a.condition), a.condition))

AllowAllValues(p, a) ==
    LET kept == GetNonMatchingRulesFromPolicy(p, a.condition)
        created == CreateRuleOnPolicy(kept, a.condition)
    IN  Return(p, [created EXCEPT ![Len(created)].allowAll = "True"])

\* Faulty variant: --remove is ignored by the dispatch.
UpdatePolicy_NoRemove(p, a) ==
    IF a.value = <<>> THEN AllowAllValues(p, a) ELSE AddValues(p, a)

UpdatePolicy(p, a) ==
    IF a.value = <<>> THEN AllowAllValues(p, a)
    ELSE IF a.remove THEN Return(p, RemoveAllowedValuesFromPolicy(p, a))
    ELSE AddValues(p, a)

Run(p, a) ==
    IF a.value = <<>> /\ a.remove THEN Raise(p, "InvalidInputError")
    ELSE UpdatePolicy(p, a)

---------------------------------------------------------------------------
(* The caller *)

Init ==
    /\ start \in Policies
    /\ fetched = start
    /\ policy = start
    /\ args = NoArgs
    /\ outcome = "none"
    /\ returned = FALSE
    /\ updated = <<>>
    /\ step = "idle"

Call(p, a, s) ==
    LET r == Run(p, a)
    IN  /\ fetched' = p
        /\ policy' = r.policy
        /\ args' = a
        /\ outcome' = r.outcome
        /\ returned' = r.returned
        /\ updated' = r.updated
        /\ step' = s
        /\ UNCHANGED start

\* The command is run on the fetched policy.
Invoke ==
    /\ step = "idle"
    /\ \E value \in ValueLists, remove \in BOOLEAN, condition \in Conditions :
          Call(policy, [value |-> value, remove |-> remove,
                        condition |-> condition], "run")

\* The same command is run again on the policy the first run returned.
Reinvoke ==
    /\ step = "run"
    /\ outcome = "ok"
    /\ Call(updated, args, "repeat")

\* After values were added, the command is run with --remove and the same
\* values and condition on the policy the first run returned.
InvokeRemove ==
    /\ step = "run"
    /\ outcome = "ok"
    /\ args.value # <<>>
    /\ ~args.remove
    /\ Call(updated, [args EXCEPT !.remove = TRUE], "undo")

Next == Invoke \/ Reinvoke \/ InvokeRemove

Spec == Init /\ [][Next]_vars

TypeOK ==
    /\ step \in {"idle", "run", "repeat", "undo"}
    /\ outcome \in {"none", "ok", "InvalidInputError",
                    "OperationNotSupportedError"}
    /\ returned = (outcome = "ok")
    /\ args.value \in ValueLists

---------------------------------------------------------------------------
(* Vocabulary of the properties *)

IsAdd == args.value # <<>> /\ ~args.remove
IsRemove == args.value # <<>> /\ args.remove
IsAllowAll == args.value = <<>> /\ ~args.remove

Called == step # "idle"

Matching(p, c) == { i \in DOMAIN p : p[i].condition = c }

First(S) == CHOOSE i \in S : \A j \in S : i <= j

Allowed(r) == SeqToSet(r.values.allowedValues)
Denied(r) == SeqToSet(r.values.deniedValues)

NoDuplicates(s) == \A i, j \in DOMAIN s : s[i] = s[j] => i = j

\* A rule that carries no allow/deny information.
Dead(r) ==
    /\ r.allowAll = "None" /\ r.denyAll = "None"
    /\ Allowed(r) = {} /\ Denied(r) = {}

HasDead(p) == \E i \in DOMAIN p : Dead(p[i])

\* Some requested value is in no allowedValues list of a rule matching c.
SomeMissing(p, c, V) ==
    \E v \in SeqToSet(V) : \A i \in Matching(p, c) : v \notin Allowed(p[i])

\* The rule with the values of V taken out of the named list.
Less(r, V, list) ==
    IF ~r.values.isSet THEN r
    ELSE IF list = "denied"
    THEN [r EXCEPT !.values.deniedValues =
                      SelectSeq(@, LAMBDA v : v \notin SeqToSet(V))]
    ELSE [r EXCEPT !.values.allowedValues =
                      SelectSeq(@, LAMBDA v : v \notin SeqToSet(V))]

\* The policy after the values of V were retracted from the named list of
\* the rules matching c and the dead rules matching c were deleted.
Retracted(p, c, V, list) ==
    SelectSeq([i \in DOMAIN p |->
                  IF p[i].condition = c THEN Less(p[i], V, list) ELSE p[i]],
              LAMBDA r : ~(r.condition = c /\ Dead(r)))

Others(p, c) == SelectSeq(p, LAMBDA r : r.condition # c)

---------------------------------------------------------------------------
(* C1 *)

\* C1: Idempotence of add.  When Add(V, C) succeeded and the same Add(V, C)
\* is applied to the policy it returned, the second call succeeds too and
\* returns a policy equal to the one it was given.
C1_AddIdempotent ==
    (step = "repeat" /\ IsAdd) => (outcome = "ok" /\ updated = fetched)

\* An add that changed the policy was repeated.
C1_Witness ==
    /\ step = "repeat" /\ IsAdd
    /\ fetched # start
    /\ updated = fetched

---------------------------------------------------------------------------
(* C2 *)

\* The first rule matching c that has allowAll or denyAll true has denyAll.
DenyAllDecides(p, c) ==
    \E i \in Matching(p, c) :
        /\ p[i].denyAll = "True"
        /\ \A j \in Matching(p, c) : j <= i => p[j].allowAll # "True"

\* C2 as stated: whenever the policy holds a rule with condition C and
\* denyAll=true, Add([A], C) ends in OperationNotSupportedError, returns no
\* policy and leaves the caller's policy as it was.
C2_Original ==
    ( /\ Called /\ IsAdd /\ Len(args.value) = 1
      /\ \E i \in Matching(fetched, args.condition) :
            fetched[i].denyAll = "True" )
    => ( /\ outcome = "OperationNotSupportedError"
         /\ ~returned
         /\ policy = fetched )

\* C2 amended: when a rule with condition C and denyAll=true is the first
\* of the rules matching C to have allowAll or denyAll true, and A is in no
\* allowedValues list of a rule matching C, Add([A], C) ends in
\* OperationNotSupportedError, returns no policy and leaves the caller's
\* policy as it was.
C2_DenyConflict ==
    ( /\ Called /\ IsAdd /\ Len(args.value) = 1
      /\ DenyAllDecides(fetched, args.condition)
      /\ SomeMissing(fetched, args.condition, args.value) )
    => ( /\ outcome = "OperationNotSupportedError"
         /\ ~returned
         /\ policy = fetched )

\* The add was rejected on a policy that also held a denied value it asked
\* for, and the caller's policy still holds it.
C2_Witness ==
    /\ step = "run" /\ IsAdd /\ Len(args.value) = 1
    /\ outcome = "OperationNotSupportedError"
    /\ policy = fetched
    /\ \E i \in Matching(policy, args.condition) :
          args.value[1] \in Denied(policy[i])

---------------------------------------------------------------------------
(* C3 *)

\* C3: Allow-all supersedes and is idempotent.  After Allow-all(C), applied
\* once or applied again to its own result, the returned policy has exactly
\* one rule with condition C, and that rule has allowAll=true and no allowed
\* or denied values.
C3_AllowAllSupersedes ==
    (Called /\ IsAllowAll) =>
        /\ outcome = "ok"
        /\ Cardinality(Matching(updated, args.condition)) = 1
        /\ \A i \in Matching(updated, args.condition) :
              /\ updated[i].allowAll = "True"
              /\ Allowed(updated[i]) = {}
              /\ Denied(updated[i]) = {}

\* Allow-all replaced two rules of the condition and was applied again.
C3_Witness ==
    /\ step = "repeat" /\ IsAllowAll
    /\ Cardinality(Matching(start, args.condition)) = 2
    /\ Cardinality(Matching(updated, args.condition)) = 1

---------------------------------------------------------------------------
(* C4 *)

\* C4: Round trip add/remove.  Starting from the empty policy, Add(V, C)
\* leaves a rule with condition C that holds the values of V, and the
\* Remove(V, C) that follows returns a policy with no rule of condition C.
C4_RoundTrip ==
    (step = "undo" /\ start = <<>>) =>
        /\ outcome = "ok"
        /\ \A v \in SeqToSet(args.value) :
              \E i \in Matching(fetched, args.condition) :
                  v \in Allowed(fetched[i])
        /\ Matching(updated, args.condition) = {}

\* The rule that the add created on the empty policy was deleted.
C4_Witness ==
    /\ step = "undo" /\ start = <<>>
    /\ Len(fetched) = 1
    /\ updated = <<>>

---------------------------------------------------------------------------
(* C5 *)

\* The first occurrence of v in V.
FirstIn(V, v) == First({ i \in DOMAIN V : V[i] = v })

\* The allowedValues the target rule of Add(V, c) had: those of the first
\* rule matching c that the retraction of V from the denied lists keeps.
TargetBefore(p, c, V) ==
    LET kept == { i \in Matching(p, c) : ~Dead(Less(p[i], V, "denied")) }
    IN  IF kept = {} THEN <<>> ELSE p[First(kept)].values.allowedValues

\* C5: Deduplication order.  When Add(V, C) succeeds, some value of V is
\* missing and no rule matching C has allowAll=true, the target rule (the
\* first rule matching C in the result) has its previous allowedValues in
\* their order, followed by the values of V that were in no allowedValues
\* list of a rule matching C, each once, in the order of their first
\* occurrence in V; a list without duplicates stays without duplicates.
C5_DedupOrder ==
    ( /\ Called /\ IsAdd /\ outcome = "ok"
      /\ SomeMissing(fetched, args.condition, args.value)
      /\ \A i \in Matching(fetched, args.condition) :
            fetched[i].allowAll # "True" )
    => /\ Matching(updated, args.condition) # {}
       /\ LET c == args.condition
              V == args.value
              before == TargetBefore(fetched, c, V)
              after == updated[First(Matching(updated, c))].values.allowedValues
              added == SubSeq(after, Len(before) + 1, Len(after))
              existing == UNION { Allowed(fetched[i]) : i \in Matching(fetched, c) }
          IN  /\ Len(after) >= Len(before)
              /\ SubSeq(after, 1, Len(before)) = before
              /\ SeqToSet(added) = SeqToSet(V) \ existing
              /\ NoDuplicates(added)
              /\ \A i, j \in DOMAIN added :
                    i < j => FirstIn(V, added[i]) < FirstIn(V, added[j])
              /\ NoDuplicates(before) => NoDuplicates(after)

\* Add([A, B, A]) on the unconditional rule with allowedValues = [B] gave
\* [B, A].
C5_Witness ==
    /\ step = "run" /\ IsAdd /\ outcome = "ok"
    /\ args.value = <<"A", "B", "A">>
    /\ args.condition = "None"
    /\ Len(fetched) = 1
    /\ fetched[1].condition = "None"
    /\ fetched[1].values.allowedValues = <<"B">>
    /\ Len(updated) = 1
    /\ updated[1].values.allowedValues = <<"B", "A">>

---------------------------------------------------------------------------
(* C6 *)

---------------------------------------------------------------------------
(* C7 *)

\* The frame of Remove(V, C): the rules of other conditions are as they
\* were and in their order, and a rule matching C that keeps a value is
\* still there, with its allowed values outside V, its denied values and
\* its flags.
RemoveFrame ==
    LET c == args.condition
        V == args.value
    IN  /\ outcome = "ok"
        /\ Others(updated, c) = Others(fetched, c)
        /\ \A i \in Matching(fetched, c) :
              (Allowed(fetched[i]) \ SeqToSet(V)) \cup Denied(fetched[i]) # {}
              => \E j \in Matching(updated, c) :
                    updated[j] = Less(fetched[i], V, "allowed")

NothingToRemove(p, c, V) ==
    \A i \in Matching(p, c) : Allowed(p[i]) \cap SeqToSet(V) = {}

---------------------------------------------------------------------------
(* C8 *)

---------------------------------------------------------------------------
(* C9 *)

\* C9: Add retracts conflicting denies before allowing.  After a successful
\* Add(V, C) on a policy in which no rule matching C has allowAll=true or
\* denyAll=true, every value of V is in the allowedValues of some rule
\* matching C and in the deniedValues of no rule matching C.
C9_RetractsDenies ==
    ( /\ Called /\ IsAdd /\ outcome = "ok"
      /\ \A i \in Matching(fetched, args.condition) :
            fetched[i].allowAll # "True" /\ fetched[i].denyAll # "True" )
    => \A v \in SeqToSet(args.value) :
          /\ \E j \in Matching(updated, args.condition) :
                v \in Allowed(updated[j])
          /\ \A j \in Matching(updated, args.condition) :
                v \notin Denied(updated[j])

\* A value that a matching rule denied was added.
C9_Witness ==
    /\ step = "run" /\ IsAdd /\ outcome = "ok"
    /\ \E i \in Matching(fetched, args.condition), v \in SeqToSet(args.value) :
          /\ v \in Denied(fetched[i])
          /\ \E j \in Matching(updated, args.condition) :
                v \in Allowed(updated[j])

---------------------------------------------------------------------------
(* C10 *)

\* C10: when some requested value is missing and the rules matching C
\* include one with allowAll=true and another with denyAll=true, Add(V, C)
\* returns a policy and does not fail, whatever the order of the two rules.
C10_AllowAllBeforeDenyAll ==
    ( /\ Called /\ IsAdd
      /\ SomeMissing(fetched, args.condition, args.value)
      /\ \E i, j \in Matching(fetched, args.condition) :
            /\ i # j
            /\ fetched[i].allowAll = "True"
            /\ fetched[j].denyAll = "True" )
    => (outcome = "ok" /\ returned)

===========================================================================
